---- MODULE Spec2Model ----
\* Swap and points settlement of ReWear: the swap router (POST /swaps,
\* PUT /swaps/:id/accept, /decline, /cancel), the Swap and Activity schemas
\* and the points balance and level on User, with the other routes that
\* write a balance or are said not to: item listing and like (item routes)
\* and the admin points adjustment.  Every handler is an async function; each
\* `await` on the database is one atomic step, so two requests interleave
\* between their awaits.
EXTENDS Integers, Sequences, FiniteSets, TLC

\* ------------------------------------------------------------------ bounds
MaxRequests == 3

\* ------------------------------------------------------------ the database
Users == {"u1", "u2"}
Items == {"i1", "i2", "i3"}
NoItem == "none"
\* An id of no item, and the status the model gives an item whose document
\* has been deleted.
MissingItem == "i0"
ItemDeleted == "deleted"

\* Item.user_id and Item.points; the swap router never writes either.
ItemOwner == [i1 |-> "u1", i2 |-> "u1", i3 |-> "u2"]
ItemPoints == [i1 |-> 15, i2 |-> 25, i3 |-> 5]

ItemStatuses == {"pending", "available", "swapped", "removed"}
SwapStatuses == {"pending", "accepted", "declined", "cancelled", "completed"}
SwapStatusDefault == "pending"
ActivityTypes == {"item_listed", "swap_request", "swap_completed", "swap_declined", "item_liked", "points_earned"}

\* Values a client may send as points_offered, and starting balances.
PointsOffers == {0, 15, 25}
InitialBalances == {10, 30}

Procs == {"p1", "p2"}

VARIABLES
    itemStatus,   \* Item.status of every item
    points,       \* User.points of every user
    swaps,        \* the swaps collection, in insertion order; the index is _id
    activities,   \* the activities collection, in insertion order
    pc,           \* where each request handler stands ("idle": no request)
    req,          \* the request each handler is serving
    last,         \* the request that finished last, with its response; cleared by the next arrival
    snap,         \* the database as it was when the latest request arrived
    nreq,         \* requests received so far
    level,        \* User.level of every user
    listings,     \* the items created by POST /items, in insertion order
    likes,        \* the likes collection: <<user_id, item_id>>
    likeCount     \* Item.likes of every item

db == <<itemStatus, points, swaps, activities>>
\* What the swap router never writes.
ledger == <<level, listings, likes, likeCount>>
vars == <<itemStatus, points, swaps, activities, pc, req, last, snap, nreq, level, listings, likes, likeCount>>

\* points is the `points` field of a request body (item listing, admin
\* adjustment) and status its `status` field (item update); doc is the
\* balance of the user document a handler holds in memory.
NoReq == [op |-> "none", user |-> "none", item |-> NoItem, offered |-> NoItem, points_offered |-> 0, swap |-> 0,
          points |-> "", doc |-> 0, status |-> ""]
NoLast == [req |-> NoReq, resp |-> [code |-> 0, error |-> "", detail |-> <<>>]]

Database == [itemStatus |-> itemStatus, points |-> points, swaps |-> swaps, activities |-> activities]

Init ==
    /\ itemStatus = [i \in Items |-> "available"]
    /\ \E b \in InitialBalances : points = [u \in Users |-> IF u = "u2" THEN b ELSE 0]
    /\ swaps = << >>
    /\ activities = << >>
    /\ pc = [p \in Procs |-> "idle"]
    /\ req = [p \in Procs |-> NoReq]
    /\ last = NoLast
    /\ snap = Database
    /\ nreq = 0
    /\ level = [u \in Users |-> "Newcomer"]
    /\ listings = << >>
    /\ likes = {}
    /\ likeCount = [i \in Items |-> 0]

\* ------------------------------------------------------------- responses
Json(code, error) == [code |-> code, error |-> error, detail |-> << >>]

\* res.status(..).json(..): the handler returns and the request is over.
Respond(p, r) ==
    /\ pc' = [pc EXCEPT ![p] = "idle"]
    /\ last' = [req |-> req[p], resp |-> r]
    /\ req' = [req EXCEPT ![p] = NoReq]
    /\ UNCHANGED <<snap, nreq>>

Goto(p, l) ==
    /\ pc' = [pc EXCEPT ![p] = l]
    /\ UNCHANGED <<req, last, snap, nreq>>

\* ------------------------------------------------------ incoming requests
\* i1 and i2 are the items requested; i3 is the item a requester may offer.
TargetItems == {"i1", "i2"}
OfferedItems == {NoItem, "i3"}

CreateRequests ==
    [op : {"create"}, user : Users, item : TargetItems, offered : OfferedItems, points_offered : PointsOffers, swap : {0},
     points : {""}, doc : {0}, status : {""}]

SwapRequests ==
    [op : {"accept", "decline", "cancel"}, user : Users, item : {NoItem}, offered : {NoItem}, points_offered : {0}, swap : 1..(Len(swaps) + 1),
     points : {""}, doc : {0}, status : {""}]

FirstStep(op) ==
    CASE op = "create" -> "c_findItem"
      [] op = "accept" -> "a_find"
      [] op = "decline" -> "d_find"
      [] op = "cancel" -> "x_find"
      [] op = "list" -> "l_validate"
      [] op = "like" -> "k_find"
      [] op = "adjust" -> "adm_find"
      [] op = "unlike" -> "n_find"
      [] op = "update" -> "u_find"
      [] op = "delete" -> "del_find"
      [] op = "approve" -> "ap_findUser"
      [] op = "reject" -> "rj_findUser"
      [] op = "adminApprove" -> "aa_find"
      [] op = "adminReject" -> "ar_find"
      [] op = "adminDelete" -> "ad_find"

Receive(p, r) ==
    /\ pc[p] = "idle"
    /\ nreq < MaxRequests
    /\ pc' = [pc EXCEPT ![p] = FirstStep(r.op)]
    /\ req' = [req EXCEPT ![p] = r]
    /\ nreq' = nreq + 1
    /\ last' = NoLast
    /\ UNCHANGED db
    /\ UNCHANGED ledger

\* A request arrives while others may be in flight.
Start(p) ==
    /\ \E r \in CreateRequests \cup SwapRequests : Receive(p, r)
    /\ UNCHANGED snap

\* Served one at a time, a create may name any item as its target and may
\* offer an item of somebody else or an item that does not exist.
SeqOfferedItems == {NoItem, "i3", "i1", MissingItem}

SeqCreateRequests ==
    [op : {"create"}, user : Users, item : Items, offered : SeqOfferedItems, points_offered : PointsOffers, swap : {0},
     points : {""}, doc : {0}, status : {""}]

\* A request arrives when no other request is in flight; snap remembers the
\* database it finds, to compare with the database it leaves.
StartAlone(p) ==
    /\ \A q \in Procs : pc[q] = "idle"
    /\ \E r \in SeqCreateRequests \cup SwapRequests : Receive(p, r)
    /\ snap' = Database

\* --------------------------------------------------- POST /  (create swap)
RedemptionThreshold(r) == r.points_offered >= ItemPoints[r.item]

AfterOfferChecks(r) == IF RedemptionThreshold(r) THEN "c_findUser" ELSE "c_saveSwap"

\* CreateFindItem with the own-item check made before the availability check.
CreateFindItemOwnerFirst(p) ==
    /\ pc[p] = "c_findItem"
    /\ UNCHANGED ledger
    /\ UNCHANGED db
    /\ LET r == req[p] IN
       IF r.item \in Items /\ ItemOwner[r.item] = r.user
       THEN Respond(p, Json(400, "Cannot swap your own item"))
       ELSE IF r.item \notin Items \/ itemStatus[r.item] # "available"
       THEN Respond(p, Json(404, "Item not found or not available"))
       ELSE Goto(p, "c_findExisting")

CreateFindItem(p) ==
    /\ pc[p] = "c_findItem"
    /\ UNCHANGED ledger
    /\ UNCHANGED db
    /\ LET r == req[p] IN
       IF r.item \notin Items \/ itemStatus[r.item] # "available"
       THEN Respond(p, Json(404, "Item not found or not available"))
       ELSE IF ItemOwner[r.item] = r.user
       THEN Respond(p, Json(400, "Cannot swap your own item"))
       ELSE Goto(p, "c_findExisting")

\* CreateFindExisting answering 409 Conflict for a duplicate.
CreateFindExistingConflict(p) ==
    /\ pc[p] = "c_findExisting"
    /\ UNCHANGED ledger
    /\ UNCHANGED db
    /\ LET r == req[p] IN
       IF \E k \in 1..Len(swaps) :
            /\ swaps[k].requester_id = r.user
            /\ swaps[k].item_id = r.item
            /\ swaps[k].status = "pending"
       THEN Respond(p, Json(409, "You already have a pending swap request for this item"))
       ELSE IF r.offered # NoItem
       THEN Goto(p, "c_findOffered")
       ELSE Goto(p, AfterOfferChecks(r))

\* CreateFindExisting with the ownership of the offered item checked before
\* the duplicate.
CreateFindExistingAfterOffer(p) ==
    /\ pc[p] = "c_findExisting"
    /\ UNCHANGED ledger
    /\ UNCHANGED db
    /\ LET r == req[p] IN
       IF r.offered \in Items /\ ItemOwner[r.offered] # r.user
       THEN Respond(p, Json(403, "You can only offer your own items"))
       ELSE IF \E k \in 1..Len(swaps) :
            /\ swaps[k].requester_id = r.user
            /\ swaps[k].item_id = r.item
            /\ swaps[k].status = "pending"
       THEN Respond(p, Json(400, "You already have a pending swap request for this item"))
       ELSE IF r.offered # NoItem
       THEN Goto(p, "c_findOffered")
       ELSE Goto(p, AfterOfferChecks(r))

CreateFindExisting(p) ==
    /\ pc[p] = "c_findExisting"
    /\ UNCHANGED ledger
    /\ UNCHANGED db
    /\ LET r == req[p] IN
       IF \E k \in 1..Len(swaps) :
            /\ swaps[k].requester_id = r.user
            /\ swaps[k].item_id = r.item
            /\ swaps[k].status = "pending"
       THEN Respond(p, Json(400, "You already have a pending swap request for this item"))
       ELSE IF r.offered # NoItem
       THEN Goto(p, "c_findOffered")
       ELSE Goto(p, AfterOfferChecks(r))

\* CreateFindOffered without the check that the offered item is available.
CreateFindOfferedAnyStatus(p) ==
    /\ pc[p] = "c_findOffered"
    /\ UNCHANGED ledger
    /\ UNCHANGED db
    /\ LET r == req[p] IN
       IF r.offered \notin Items \/ itemStatus[r.offered] = ItemDeleted
       THEN Respond(p, Json(404, "Offered item not found"))
       ELSE IF ItemOwner[r.offered] # r.user
       THEN Respond(p, Json(403, "You can only offer your own items"))
       ELSE Goto(p, AfterOfferChecks(r))

CreateFindOffered(p) ==
    /\ pc[p] = "c_findOffered"
    /\ UNCHANGED ledger
    /\ UNCHANGED db
    /\ LET r == req[p] IN
       IF r.offered \notin Items \/ itemStatus[r.offered] = ItemDeleted
       THEN Respond(p, Json(404, "Offered item not found"))
       ELSE IF ItemOwner[r.offered] # r.user
       THEN Respond(p, Json(403, "You can only offer your own items"))
       ELSE IF itemStatus[r.offered] # "available"
       THEN Respond(p, Json(400, "Offered item must be available"))
       ELSE Goto(p, AfterOfferChecks(r))

\* CreateFindUser with the balance compared to, and reported against, the
\* points offered instead of the item's valuation.
CreateFindUserOffered(p) ==
    /\ pc[p] = "c_findUser"
    /\ UNCHANGED ledger
    /\ UNCHANGED db
    /\ LET r == req[p] IN
       IF r.user \notin Users \/ points[r.user] < r.points_offered
       THEN Respond(p, [code |-> 400, error |-> "Insufficient points",
                        detail |-> <<r.points_offered, IF r.user \in Users THEN points[r.user] ELSE 0>>])
       ELSE Goto(p, "c_markSwapped")

CreateFindUser(p) ==
    /\ pc[p] = "c_findUser"
    /\ UNCHANGED ledger
    /\ UNCHANGED db
    /\ LET r == req[p] IN
       IF r.user \notin Users \/ points[r.user] < ItemPoints[r.item]
       THEN Respond(p, [code |-> 400, error |-> "Insufficient points",
                        detail |-> <<ItemPoints[r.item], IF r.user \in Users THEN points[r.user] ELSE 0>>])
       ELSE Goto(p, "c_markSwapped")

CreateMarkSwapped(p) ==
    /\ pc[p] = "c_markSwapped"
    /\ UNCHANGED ledger
    /\ itemStatus' = [itemStatus EXCEPT ![req[p].item] = IF @ = ItemDeleted THEN @ ELSE "swapped"]
    /\ UNCHANGED <<points, swaps, activities>>
    /\ Goto(p, "c_debit")

\* CreateDebit taking the points offered instead of the item's valuation.
CreateDebitOffered(p) ==
    /\ pc[p] = "c_debit"
    /\ UNCHANGED ledger
    /\ points' = [points EXCEPT ![req[p].user] = @ - req[p].points_offered]
    /\ UNCHANGED <<itemStatus, swaps, activities>>
    /\ Goto(p, "c_credit")

CreateDebit(p) ==
    /\ pc[p] = "c_debit"
    /\ UNCHANGED ledger
    /\ points' = [points EXCEPT ![req[p].user] = @ - ItemPoints[req[p].item]]
    /\ UNCHANGED <<itemStatus, swaps, activities>>
    /\ Goto(p, "c_credit")

CreateCredit(p) ==
    /\ pc[p] = "c_credit"
    /\ UNCHANGED ledger
    /\ points' = [points EXCEPT ![ItemOwner[req[p].item]] = @ + ItemPoints[req[p].item]]
    /\ UNCHANGED <<itemStatus, swaps, activities>>
    /\ Goto(p, "c_saveSwap")

NewSwap(r) ==
    [requester_id |-> r.user, item_id |-> r.item, offered_item_id |-> r.offered,
     status |-> SwapStatusDefault, points_offered |-> r.points_offered]

CreateSaveSwap(p) ==
    /\ pc[p] = "c_saveSwap"
    /\ UNCHANGED ledger
    /\ swaps' = Append(swaps, NewSwap(req[p]))
    /\ UNCHANGED <<itemStatus, points, activities>>
    /\ Goto(p, "c_saveActivity")

\* CreateActivity recording the points offered as the delta of a request.
CreateActivityOffered(r) ==
    [user_id |-> r.user,
     type |-> IF RedemptionThreshold(r) THEN "point_redemption" ELSE "swap_request",
     points |-> IF RedemptionThreshold(r) THEN 0 - ItemPoints[r.item] ELSE 0 - r.points_offered,
     related_item_id |-> r.item]

CreateActivity(r) ==
    [user_id |-> r.user,
     type |-> IF RedemptionThreshold(r) THEN "point_redemption" ELSE "swap_request",
     points |-> IF RedemptionThreshold(r) THEN 0 - ItemPoints[r.item] ELSE 0,
     related_item_id |-> r.item]

\* activity.save() validates `type` against the schema's enum; a validation
\* error is thrown into the handler's catch, which answers 500.
CreateSaveActivity(p) ==
    /\ pc[p] = "c_saveActivity"
    /\ UNCHANGED ledger
    /\ UNCHANGED <<itemStatus, points, swaps>>
    /\ LET a == CreateActivity(req[p]) IN
       IF a.type \notin ActivityTypes
       THEN /\ UNCHANGED activities
            /\ Respond(p, Json(500, "Failed to create swap request"))
       ELSE /\ activities' = Append(activities, a)
            /\ Respond(p, Json(201, ""))

\* ------------------------------------------------------- PUT /:id/accept
\* Swap.findById(id).populate('item_id'): the swap with its item.
SwapExists(id) == id \in 1..Len(swaps)

\* pointsToAward with Math.round in place of Math.floor.
pointsToAwardRounded(itemPoints) == (itemPoints + 5) \div 10

pointsToAward(itemPoints) == itemPoints \div 10

AcceptFind(p) ==
    /\ pc[p] = "a_find"
    /\ UNCHANGED ledger
    /\ UNCHANGED db
    /\ LET r == req[p] IN
       IF ~SwapExists(r.swap)
       THEN Respond(p, Json(404, "Swap request not found"))
       ELSE IF itemStatus[swaps[r.swap].item_id] = ItemDeleted
       THEN Respond(p, Json(500, "Failed to accept swap request"))
       ELSE IF ItemOwner[swaps[r.swap].item_id] # r.user
       THEN Respond(p, Json(403, "Only the item owner can accept swap requests"))
       ELSE IF swaps[r.swap].status # "pending"
       THEN Respond(p, Json(400, "Swap request is no longer pending"))
       ELSE Goto(p, "a_save")

AcceptSave(p) ==
    /\ pc[p] = "a_save"
    /\ UNCHANGED ledger
    /\ swaps' = [swaps EXCEPT ![req[p].swap].status = "completed"]
    /\ UNCHANGED <<itemStatus, points, activities>>
    /\ Goto(p, "a_markSwapped")

\* AcceptMarkSwapped marking the offered item swapped as well.
AcceptMarkSwappedBoth(p) ==
    /\ pc[p] = "a_markSwapped"
    /\ UNCHANGED ledger
    /\ LET s == swaps[req[p].swap] IN
       itemStatus' = [i \in Items |-> IF i \in {s.item_id, s.offered_item_id} THEN "swapped" ELSE itemStatus[i]]
    /\ UNCHANGED <<points, swaps, activities>>
    /\ Goto(p, "a_awardRequester")

AcceptMarkSwapped(p) ==
    /\ pc[p] = "a_markSwapped"
    /\ UNCHANGED ledger
    /\ itemStatus' = [itemStatus EXCEPT ![swaps[req[p].swap].item_id] = IF @ = ItemDeleted THEN @ ELSE "swapped"]
    /\ UNCHANGED <<points, swaps, activities>>
    /\ Goto(p, "a_awardRequester")

AcceptAwardRequester(p) ==
    /\ pc[p] = "a_awardRequester"
    /\ UNCHANGED ledger
    /\ LET s == swaps[req[p].swap] IN
       points' = [points EXCEPT ![s.requester_id] = @ + pointsToAward(ItemPoints[s.item_id])]
    /\ UNCHANGED <<itemStatus, swaps, activities>>
    /\ Goto(p, "a_awardOwner")

AcceptAwardOwner(p) ==
    /\ pc[p] = "a_awardOwner"
    /\ UNCHANGED ledger
    /\ LET s == swaps[req[p].swap] IN
       points' = [points EXCEPT ![req[p].user] = @ + pointsToAward(ItemPoints[s.item_id])]
    /\ UNCHANGED <<itemStatus, swaps, activities>>
    /\ Goto(p, "a_requesterActivity")

\* AcceptRequesterActivity attributing the record to the caller, the owner.
AcceptRequesterActivityOwner(p) ==
    /\ pc[p] = "a_requesterActivity"
    /\ UNCHANGED ledger
    /\ LET s == swaps[req[p].swap] IN
       activities' = Append(activities,
            [user_id |-> req[p].user, type |-> "swap_completed",
             points |-> pointsToAward(ItemPoints[s.item_id]), related_item_id |-> s.item_id])
    /\ UNCHANGED <<itemStatus, points, swaps>>
    /\ Goto(p, "a_ownerActivity")

AcceptRequesterActivity(p) ==
    /\ pc[p] = "a_requesterActivity"
    /\ UNCHANGED ledger
    /\ LET s == swaps[req[p].swap] IN
       activities' = Append(activities,
            [user_id |-> s.requester_id, type |-> "swap_completed",
             points |-> pointsToAward(ItemPoints[s.item_id]), related_item_id |-> s.item_id])
    /\ UNCHANGED <<itemStatus, points, swaps>>
    /\ Goto(p, "a_ownerActivity")

AcceptOwnerActivity(p) ==
    /\ pc[p] = "a_ownerActivity"
    /\ UNCHANGED ledger
    /\ LET s == swaps[req[p].swap] IN
       activities' = Append(activities,
            [user_id |-> req[p].user, type |-> "swap_completed",
             points |-> pointsToAward(ItemPoints[s.item_id]), related_item_id |-> s.item_id])
    /\ UNCHANGED <<itemStatus, points, swaps>>
    /\ Respond(p, Json(200, ""))

\* ------------------------------------------------------ PUT /:id/decline
\* DeclineFind without the check that the caller owns the item.
DeclineFindAnyUser(p) ==
    /\ pc[p] = "d_find"
    /\ UNCHANGED ledger
    /\ UNCHANGED db
    /\ LET r == req[p] IN
       IF ~SwapExists(r.swap)
       THEN Respond(p, Json(404, "Swap request not found"))
       ELSE IF swaps[r.swap].status # "pending"
       THEN Respond(p, Json(400, "Swap request is no longer pending"))
       ELSE Goto(p, "d_save")

DeclineFind(p) ==
    /\ pc[p] = "d_find"
    /\ UNCHANGED ledger
    /\ UNCHANGED db
    /\ LET r == req[p] IN
       IF ~SwapExists(r.swap)
       THEN Respond(p, Json(404, "Swap request not found"))
       ELSE IF itemStatus[swaps[r.swap].item_id] = ItemDeleted
       THEN Respond(p, Json(500, "Failed to decline swap request"))
       ELSE IF ItemOwner[swaps[r.swap].item_id] # r.user
       THEN Respond(p, Json(403, "Only the item owner can decline swap requests"))
       ELSE IF swaps[r.swap].status # "pending"
       THEN Respond(p, Json(400, "Swap request is no longer pending"))
       ELSE Goto(p, "d_save")

DeclineSave(p) ==
    /\ pc[p] = "d_save"
    /\ UNCHANGED ledger
    /\ swaps' = [swaps EXCEPT ![req[p].swap].status = "declined"]
    /\ UNCHANGED <<itemStatus, points, activities>>
    /\ Goto(p, "d_activity")

\* DeclineActivity attributing the record to the caller instead of the requester.
DeclineActivityOwner(p) ==
    /\ pc[p] = "d_activity"
    /\ UNCHANGED ledger
    /\ LET s == swaps[req[p].swap] IN
       activities' = Append(activities,
            [user_id |-> req[p].user, type |-> "swap_declined", points |-> 0, related_item_id |-> s.item_id])
    /\ UNCHANGED <<itemStatus, points, swaps>>
    /\ Respond(p, Json(200, ""))

DeclineActivity(p) ==
    /\ pc[p] = "d_activity"
    /\ UNCHANGED ledger
    /\ LET s == swaps[req[p].swap] IN
       activities' = Append(activities,
            [user_id |-> s.requester_id, type |-> "swap_declined", points |-> 0, related_item_id |-> s.item_id])
    /\ UNCHANGED <<itemStatus, points, swaps>>
    /\ Respond(p, Json(200, ""))

\* ------------------------------------------------------- PUT /:id/cancel
\* CancelFind without the check that the swap is still pending.
CancelFindAnyStatus(p) ==
    /\ pc[p] = "x_find"
    /\ UNCHANGED ledger
    /\ UNCHANGED db
    /\ LET r == req[p] IN
       IF ~SwapExists(r.swap)
       THEN Respond(p, Json(404, "Swap request not found"))
       ELSE IF swaps[r.swap].requester_id # r.user
       THEN Respond(p, Json(403, "Only the requester can cancel swap requests"))
       ELSE Goto(p, "x_save")

CancelFind(p) ==
    /\ pc[p] = "x_find"
    /\ UNCHANGED ledger
    /\ UNCHANGED db
    /\ LET r == req[p] IN
       IF ~SwapExists(r.swap)
       THEN Respond(p, Json(404, "Swap request not found"))
       ELSE IF swaps[r.swap].requester_id # r.user
       THEN Respond(p, Json(403, "Only the requester can cancel swap requests"))
       ELSE IF swaps[r.swap].status # "pending"
       THEN Respond(p, Json(400, "Swap request is no longer pending"))
       ELSE Goto(p, "x_save")

\* CancelSave also recording an activity, as decline does.
CancelSaveWithActivity(p) ==
    /\ pc[p] = "x_save"
    /\ UNCHANGED ledger
    /\ swaps' = [swaps EXCEPT ![req[p].swap].status = "cancelled"]
    /\ activities' = Append(activities,
          [user_id |-> req[p].user, type |-> "swap_declined", points |-> 0,
           related_item_id |-> swaps[req[p].swap].item_id])
    /\ UNCHANGED <<itemStatus, points>>
    /\ Respond(p, Json(200, ""))

CancelSave(p) ==
    /\ pc[p] = "x_save"
    /\ UNCHANGED ledger
    /\ swaps' = [swaps EXCEPT ![req[p].swap].status = "cancelled"]
    /\ UNCHANGED <<itemStatus, points, activities>>
    /\ Respond(p, Json(200, ""))

\* --------------------------------------------------------- specifications
Step(p) ==
    \/ CreateFindItem(p)
    \/ CreateFindExisting(p)
    \/ CreateFindOffered(p)
    \/ CreateFindUser(p)
    \/ CreateMarkSwapped(p)
    \/ CreateDebit(p)
    \/ CreateCredit(p)
    \/ CreateSaveSwap(p)
    \/ CreateSaveActivity(p)
    \/ AcceptFind(p)
    \/ AcceptSave(p)
    \/ AcceptMarkSwapped(p)
    \/ AcceptAwardRequester(p)
    \/ AcceptAwardOwner(p)
    \/ AcceptRequesterActivity(p)
    \/ AcceptOwnerActivity(p)
    \/ DeclineFind(p)
    \/ DeclineSave(p)
    \/ DeclineActivity(p)
    \/ CancelFind(p)
    \/ CancelSave(p)

\* Requests served concurrently: handlers interleave between their awaits.
Next == \E p \in Procs : Start(p) \/ Step(p)

Spec == Init /\ [][Next]_vars

\* Requests served one after the other.
NextSeq == \E p \in Procs : StartAlone(p) \/ Step(p)

SpecSeq == Init /\ [][NextSeq]_vars

\* ------------------------------------------------- User.level (User.js)
Levels == {"Newcomer", "Fashion Enthusiast", "Eco Champion", "Swap Master"}

\* updateLevel with the thresholds exclusive.
updateLevelExclusive(pts) ==
    IF pts > 1000 THEN "Swap Master"
    ELSE IF pts > 500 THEN "Eco Champion"
    ELSE IF pts > 100 THEN "Fashion Enthusiast"
    ELSE "Newcomer"

\* userSchema.methods.updateLevel: the level of a balance.
updateLevel(pts) ==
    IF pts >= 1000 THEN "Swap Master"
    ELSE IF pts >= 500 THEN "Eco Champion"
    ELSE IF pts >= 100 THEN "Fashion Enthusiast"
    ELSE "Newcomer"

\* parseInt on the bodies a client sends; a body that does not start with a
\* number gives NaN.
parseInt(s) ==
    CASE s = "100" -> [isNaN |-> FALSE, n |-> 100]
      [] s = "-20" -> [isNaN |-> FALSE, n |-> 0 - 20]
      [] s = "20" -> [isNaN |-> FALSE, n |-> 20]
      [] s = "99" -> [isNaN |-> FALSE, n |-> 99]
      [] s = "499" -> [isNaN |-> FALSE, n |-> 499]
      [] s = "500" -> [isNaN |-> FALSE, n |-> 500]
      [] s = "999" -> [isNaN |-> FALSE, n |-> 999]
      [] s = "1000" -> [isNaN |-> FALSE, n |-> 1000]
      [] OTHER -> [isNaN |-> TRUE, n |-> 0]

\* Requests of the item routes and of the admin route.  "u0" is the id of
\* no user.
ListBodies == {"", "20", "abc"}
AdjustBodies == {"100", "-20", "abc"}
LikedItems == {"i1"}
ListingReward == 10

ListRequests ==
    [op : {"list"}, user : Users, item : {NoItem}, offered : {NoItem}, points_offered : {0}, swap : {0},
     points : ListBodies, doc : {0}, status : {""}]

LikeRequests ==
    [op : {"like"}, user : Users, item : LikedItems, offered : {NoItem}, points_offered : {0}, swap : {0},
     points : {""}, doc : {0}, status : {""}]

AdjustRequests ==
    [op : {"adjust"}, user : Users \cup {"u0"}, item : {NoItem}, offered : {NoItem}, points_offered : {0}, swap : {0},
     points : AdjustBodies, doc : {0}, status : {""}]

\* A request of any route arrives when no other request is in flight.
StartLedger(p) ==
    /\ \A q \in Procs : pc[q] = "idle"
    /\ \E r \in CreateRequests \cup SwapRequests \cup ListRequests \cup LikeRequests \cup AdjustRequests :
         Receive(p, r)
    /\ snap' = Database

\* ------------------------------------------------ POST /items  (list item)
ListValidate(p) ==
    /\ pc[p] = "l_validate"
    /\ UNCHANGED db
    /\ UNCHANGED ledger
    /\ LET r == req[p] IN
       IF r.points = ""
       THEN Respond(p, Json(400, "Missing required fields"))
       ELSE IF parseInt(r.points).isNaN \/ parseInt(r.points).n < 0 \/ parseInt(r.points).n > 10000
       THEN Respond(p, Json(400, "Points must be between 0 and 10,000"))
       ELSE Goto(p, "l_saveItem")

ListSaveItem(p) ==
    /\ pc[p] = "l_saveItem"
    /\ listings' = Append(listings,
          [id |-> ToString(Len(listings) + 1), user_id |-> req[p].user,
           points |-> parseInt(req[p].points).n, status |-> "pending"])
    /\ UNCHANGED db
    /\ UNCHANGED <<level, likes, likeCount>>
    /\ Goto(p, "l_saveActivity")

ListSaveActivity(p) ==
    /\ pc[p] = "l_saveActivity"
    /\ activities' = Append(activities,
          [user_id |-> req[p].user, type |-> "item_listed", points |-> ListingReward,
           related_item_id |-> listings[Len(listings)].id])
    /\ UNCHANGED <<itemStatus, points, swaps>>
    /\ UNCHANGED ledger
    /\ Goto(p, "l_reward")

\* User.findByIdAndUpdate(userId, { $inc: { points: 10 } })
ListReward(p) ==
    /\ pc[p] = "l_reward"
    /\ points' = [points EXCEPT ![req[p].user] = @ + ListingReward]
    /\ UNCHANGED <<itemStatus, swaps, activities>>
    /\ UNCHANGED ledger
    /\ Respond(p, Json(201, ""))

\* ------------------------------------------- POST /items/:id/like  (toggle)
LikeFind(p) ==
    /\ pc[p] = "k_find"
    /\ UNCHANGED db
    /\ UNCHANGED ledger
    /\ IF <<req[p].user, req[p].item>> \in likes
       THEN Goto(p, "k_delete")
       ELSE Goto(p, "k_save")

LikeDelete(p) ==
    /\ pc[p] = "k_delete"
    /\ likes' = likes \ {<<req[p].user, req[p].item>>}
    /\ UNCHANGED db
    /\ UNCHANGED <<level, listings, likeCount>>
    /\ Goto(p, "k_dec")

LikeDec(p) ==
    /\ pc[p] = "k_dec"
    /\ likeCount' = [likeCount EXCEPT ![req[p].item] = @ - 1]
    /\ UNCHANGED db
    /\ UNCHANGED <<level, listings, likes>>
    /\ Respond(p, Json(200, ""))

\* like.save(): the unique index on (user_id, item_id) refuses a second
\* record of the same pair, and the error goes to the catch block.
LikeSave(p) ==
    /\ pc[p] = "k_save"
    /\ UNCHANGED db
    /\ UNCHANGED <<level, listings, likeCount>>
    /\ IF <<req[p].user, req[p].item>> \in likes
       THEN /\ UNCHANGED likes
            /\ Respond(p, Json(500, "Failed to toggle like"))
       ELSE /\ likes' = likes \cup {<<req[p].user, req[p].item>>}
            /\ Goto(p, "k_inc")

\* LikeInc also paying the owner of the item a point for the like.
LikeIncReward(p) ==
    /\ pc[p] = "k_inc"
    /\ likeCount' = [likeCount EXCEPT ![req[p].item] = @ + 1]
    /\ points' = [points EXCEPT ![ItemOwner[req[p].item]] = @ + 1]
    /\ UNCHANGED <<itemStatus, swaps, activities>>
    /\ UNCHANGED <<level, listings, likes>>
    /\ Respond(p, Json(200, ""))

LikeInc(p) ==
    /\ pc[p] = "k_inc"
    /\ likeCount' = [likeCount EXCEPT ![req[p].item] = @ + 1]
    /\ UNCHANGED db
    /\ UNCHANGED <<level, listings, likes>>
    /\ Respond(p, Json(200, ""))

\* ---------------------------------------- DELETE /items/:id/like  (unlike)
UnlikeFind(p) ==
    /\ pc[p] = "n_find"
    /\ UNCHANGED db
    /\ UNCHANGED ledger
    /\ IF <<req[p].user, req[p].item>> \in likes
       THEN Goto(p, "n_delete")
       ELSE Respond(p, Json(200, ""))

UnlikeDelete(p) ==
    /\ pc[p] = "n_delete"
    /\ likes' = likes \ {<<req[p].user, req[p].item>>}
    /\ UNCHANGED db
    /\ UNCHANGED <<level, listings, likeCount>>
    /\ Goto(p, "n_dec")

UnlikeDec(p) ==
    /\ pc[p] = "n_dec"
    /\ likeCount' = [likeCount EXCEPT ![req[p].item] = @ - 1]
    /\ UNCHANGED db
    /\ UNCHANGED <<level, listings, likes>>
    /\ Respond(p, Json(200, ""))

UnlikeRequests ==
    [op : {"unlike"}, user : Users, item : LikedItems, offered : {NoItem}, points_offered : {0}, swap : {0},
     points : {""}, doc : {0}, status : {""}]

\* A like or unlike request arrives while others may be in flight.
StartLikes(p) ==
    /\ \E r \in LikeRequests \cup UnlikeRequests : Receive(p, r)
    /\ UNCHANGED snap

LikeStep(p) ==
    \/ LikeFind(p)
    \/ LikeDelete(p)
    \/ LikeDec(p)
    \/ LikeSave(p)
    \/ LikeInc(p)
    \/ UnlikeFind(p)
    \/ UnlikeDelete(p)
    \/ UnlikeDec(p)

\* Like and unlike requests served concurrently.
NextLikes == \E p \in Procs : StartLikes(p) \/ LikeStep(p)

SpecLikes == Init /\ [][NextLikes]_vars

\* --------------------------------- PUT /admin/users/:id/points  (adjust)
\* findById, then in memory user.points += pointsChange.
AdminFind(p) ==
    /\ pc[p] = "adm_find"
    /\ UNCHANGED db
    /\ UNCHANGED ledger
    /\ LET r == req[p] IN
       IF r.user \notin Users
       THEN Respond(p, Json(404, "User not found"))
       ELSE IF parseInt(r.points).isNaN
       THEN Respond(p, Json(400, "Invalid points value"))
       ELSE /\ pc' = [pc EXCEPT ![p] = "adm_save"]
            /\ req' = [req EXCEPT ![p].doc = points[r.user] + parseInt(r.points).n]
            /\ UNCHANGED <<last, snap, nreq>>

\* user.updateLevel(); await user.save()
AdminSave(p) ==
    /\ pc[p] = "adm_save"
    /\ points' = [points EXCEPT ![req[p].user] = req[p].doc]
    /\ level' = [level EXCEPT ![req[p].user] = updateLevel(req[p].doc)]
    /\ UNCHANGED <<itemStatus, swaps, activities>>
    /\ UNCHANGED <<listings, likes, likeCount>>
    /\ Goto(p, "adm_activity")

AdminActivity(r) ==
    [user_id |-> r.user, type |-> "points_adjusted", points |-> parseInt(r.points).n, related_item_id |-> NoItem]

\* activity.save() validates type against the enum of the schema; a
\* validation error is thrown to the catch block.
AdminSaveActivity(p) ==
    /\ pc[p] = "adm_activity"
    /\ UNCHANGED ledger
    /\ IF AdminActivity(req[p]).type \in ActivityTypes
       THEN /\ activities' = Append(activities, AdminActivity(req[p]))
            /\ UNCHANGED <<itemStatus, points, swaps>>
            /\ Respond(p, Json(200, ""))
       ELSE /\ UNCHANGED db
            /\ Respond(p, Json(500, "Failed to adjust user points"))

LedgerStep(p) ==
    \/ ListValidate(p)
    \/ ListSaveItem(p)
    \/ ListSaveActivity(p)
    \/ ListReward(p)
    \/ LikeFind(p)
    \/ LikeDelete(p)
    \/ LikeDec(p)
    \/ LikeSave(p)
    \/ LikeInc(p)
    \/ AdminFind(p)
    \/ AdminSave(p)
    \/ AdminSaveActivity(p)

\* Requests of the swap, item and admin routes, served one after the other.
NextLedger == \E p \in Procs : StartLedger(p) \/ Step(p) \/ LedgerStep(p)

SpecLedger == Init /\ [][NextLedger]_vars

\* ----------------------------------------- adjustments around the levels
\* Adjustments that put a balance on, just under and far from each threshold.
LevelBodies == {"-20", "99", "100", "499", "500", "999", "1000"}

LevelRequests ==
    [op : {"adjust"}, user : Users, item : {NoItem}, offered : {NoItem}, points_offered : {0}, swap : {0},
     points : LevelBodies, doc : {0}, status : {""}]

StartLevel(p) ==
    /\ \A q \in Procs : pc[q] = "idle"
    /\ \E r \in LevelRequests : Receive(p, r)
    /\ snap' = Database

\* Admin adjustments only, served one after the other.
NextLevel == \E p \in Procs : StartLevel(p) \/ AdminFind(p) \/ AdminSave(p) \/ AdminSaveActivity(p)

SpecLevel == Init /\ [][NextLevel]_vars

\* ------------------------------------------------ one item offered twice
\* The database after u2 has asked for i1 and for i2, offering i3 both times:
\* the two swaps and the two activities as create stores them.
OfferRequests ==
    << [op |-> "create", user |-> "u2", item |-> "i1", offered |-> "i3", points_offered |-> 0, swap |-> 0,
        points |-> "", doc |-> 0, status |-> ""],
       [op |-> "create", user |-> "u2", item |-> "i2", offered |-> "i3", points_offered |-> 0, swap |-> 0,
        points |-> "", doc |-> 0, status |-> ""] >>

InitOffers ==
    /\ itemStatus = [i \in Items |-> "available"]
    /\ \E b \in InitialBalances : points = [u \in Users |-> IF u = "u2" THEN b ELSE 0]
    /\ swaps = << NewSwap(OfferRequests[1]), NewSwap(OfferRequests[2]) >>
    /\ activities = << CreateActivity(OfferRequests[1]), CreateActivity(OfferRequests[2]) >>
    /\ pc = [p \in Procs |-> "idle"]
    /\ req = [p \in Procs |-> NoReq]
    /\ last = NoLast
    /\ snap = Database
    /\ nreq = 0
    /\ level = [u \in Users |-> "Newcomer"]
    /\ listings = << >>
    /\ likes = {}
    /\ likeCount = [i \in Items |-> 0]

StartOffers(p) ==
    /\ \A q \in Procs : pc[q] = "idle"
    /\ \E r \in CreateRequests \cup SwapRequests : Receive(p, r)
    /\ snap' = Database

\* The swap router, requests one after the other, from the two offers.
NextOffers == \E p \in Procs : StartOffers(p) \/ Step(p)

SpecOffers == InitOffers /\ [][NextOffers]_vars

\* ------------------------------------------- item routes and moderation
\* The administrator; part_005's approve and reject read the caller's role.
Admin == "admin"
Role(u) == IF u = Admin THEN "admin" ELSE "user"

\* The status an owner may put in the body of PUT /items/:id.
UpdateBodies == {"available", "pending"}

ItemRequest(ops, users, statuses) ==
    [op : ops, user : users, item : Items, offered : {NoItem}, points_offered : {0}, swap : {0},
     points : {""}, doc : {0}, status : statuses]

ItemRequests ==
    ItemRequest({"update"}, Users, UpdateBodies)
        \cup ItemRequest({"delete"}, Users, {""})
        \cup ItemRequest({"approve", "reject"}, {Admin, "u1"}, {""})
        \cup ItemRequest({"adminApprove", "adminReject", "adminDelete"}, {Admin}, {""})

StartItems(p) ==
    /\ \A q \in Procs : pc[q] = "idle"
    /\ \E r \in CreateRequests \cup SwapRequests \cup ItemRequests : Receive(p, r)
    /\ snap' = Database

\* PUT /items/:id (owner): the body goes to findByIdAndUpdate as it is.
UpdateFind(p) ==
    /\ pc[p] = "u_find"
    /\ UNCHANGED ledger
    /\ UNCHANGED db
    /\ IF itemStatus[req[p].item] = ItemDeleted
       THEN Respond(p, Json(404, "Item not found"))
       ELSE IF ItemOwner[req[p].item] # req[p].user
       THEN Respond(p, Json(403, "You can only edit your own items"))
       ELSE Goto(p, "u_update")

UpdateItem(p) ==
    /\ pc[p] = "u_update"
    /\ UNCHANGED ledger
    /\ itemStatus' = [itemStatus EXCEPT ![req[p].item] = IF @ = ItemDeleted THEN @ ELSE req[p].status]
    /\ UNCHANGED <<points, swaps, activities>>
    /\ Respond(p, Json(200, ""))

\* DELETE /items/:id (owner)
DeleteFind(p) ==
    /\ pc[p] = "del_find"
    /\ UNCHANGED ledger
    /\ UNCHANGED db
    /\ IF itemStatus[req[p].item] = ItemDeleted
       THEN Respond(p, Json(404, "Item not found"))
       ELSE IF ItemOwner[req[p].item] # req[p].user
       THEN Respond(p, Json(403, "You can only delete your own items"))
       ELSE Goto(p, "del_delete")

DeleteItem(p) ==
    /\ pc[p] = "del_delete"
    /\ UNCHANGED ledger
    /\ itemStatus' = [itemStatus EXCEPT ![req[p].item] = ItemDeleted]
    /\ UNCHANGED <<points, swaps, activities>>
    /\ Respond(p, Json(200, ""))

\* PUT /items/:id/approve (item routes)
ApproveFindUser(p) ==
    /\ pc[p] = "ap_findUser"
    /\ UNCHANGED ledger
    /\ UNCHANGED db
    /\ IF Role(req[p].user) # "admin"
       THEN Respond(p, Json(403, "Admin access required"))
       ELSE Goto(p, "ap_update")

ApproveUpdate(p) ==
    /\ pc[p] = "ap_update"
    /\ UNCHANGED ledger
    /\ UNCHANGED <<points, swaps, activities>>
    /\ IF itemStatus[req[p].item] = ItemDeleted
       THEN /\ UNCHANGED itemStatus
            /\ Respond(p, Json(404, "Item not found"))
       ELSE /\ itemStatus' = [itemStatus EXCEPT ![req[p].item] = "available"]
            /\ Respond(p, Json(200, ""))

\* PUT /items/:id/reject (item routes)
RejectFindUser(p) ==
    /\ pc[p] = "rj_findUser"
    /\ UNCHANGED ledger
    /\ UNCHANGED db
    /\ IF Role(req[p].user) # "admin"
       THEN Respond(p, Json(403, "Admin access required"))
       ELSE Goto(p, "rj_update")

RejectUpdate(p) ==
    /\ pc[p] = "rj_update"
    /\ UNCHANGED ledger
    /\ UNCHANGED <<points, swaps, activities>>
    /\ IF itemStatus[req[p].item] = ItemDeleted
       THEN /\ UNCHANGED itemStatus
            /\ Respond(p, Json(404, "Item not found"))
       ELSE /\ itemStatus' = [itemStatus EXCEPT ![req[p].item] = "removed"]
            /\ Respond(p, Json(200, ""))

\* PUT /admin/items/:id/approve
AdminApproveFind(p) ==
    /\ pc[p] = "aa_find"
    /\ UNCHANGED ledger
    /\ UNCHANGED db
    /\ IF itemStatus[req[p].item] = ItemDeleted
       THEN Respond(p, Json(404, "Item not found"))
       ELSE IF itemStatus[req[p].item] # "pending"
       THEN Respond(p, Json(400, "Item is not pending approval"))
       ELSE Goto(p, "aa_save")

AdminApproveSave(p) ==
    /\ pc[p] = "aa_save"
    /\ UNCHANGED ledger
    /\ itemStatus' = [itemStatus EXCEPT ![req[p].item] = "available"]
    /\ UNCHANGED <<points, swaps, activities>>
    /\ Goto(p, "aa_activity")

AdminApproveActivity(r) ==
    [user_id |-> ItemOwner[r.item], type |-> "item_approved", points |-> 10, related_item_id |-> NoItem]

AdminApproveSaveActivity(p) ==
    /\ pc[p] = "aa_activity"
    /\ UNCHANGED ledger
    /\ IF AdminApproveActivity(req[p]).type \in ActivityTypes
       THEN /\ activities' = Append(activities, AdminApproveActivity(req[p]))
            /\ UNCHANGED <<itemStatus, points, swaps>>
            /\ Respond(p, Json(200, ""))
       ELSE /\ UNCHANGED db
            /\ Respond(p, Json(500, "Failed to approve item"))

\* PUT /admin/items/:id/reject: item.save() validates status against the
\* enum of the schema.
AdminRejectFind(p) ==
    /\ pc[p] = "ar_find"
    /\ UNCHANGED ledger
    /\ UNCHANGED db
    /\ IF itemStatus[req[p].item] = ItemDeleted
       THEN Respond(p, Json(404, "Item not found"))
       ELSE IF itemStatus[req[p].item] # "pending"
       THEN Respond(p, Json(400, "Item is not pending approval"))
       ELSE Goto(p, "ar_save")

AdminRejectSave(p) ==
    /\ pc[p] = "ar_save"
    /\ UNCHANGED ledger
    /\ UNCHANGED <<points, swaps, activities>>
    /\ IF "rejected" \in ItemStatuses
       THEN /\ itemStatus' = [itemStatus EXCEPT ![req[p].item] = "rejected"]
            /\ Goto(p, "ar_activity")
       ELSE /\ UNCHANGED itemStatus
            /\ Respond(p, Json(500, "Failed to reject item"))

\* DELETE /admin/items/:id: the activity is saved before the deletion.
AdminDeleteFind(p) ==
    /\ pc[p] = "ad_find"
    /\ UNCHANGED ledger
    /\ UNCHANGED db
    /\ IF itemStatus[req[p].item] = ItemDeleted
       THEN Respond(p, Json(404, "Item not found"))
       ELSE Goto(p, "ad_activity")

AdminDeleteActivity(r) ==
    [user_id |-> ItemOwner[r.item], type |-> "item_removed", points |-> 0 - 10, related_item_id |-> NoItem]

AdminDeleteSaveActivity(p) ==
    /\ pc[p] = "ad_activity"
    /\ UNCHANGED ledger
    /\ IF AdminDeleteActivity(req[p]).type \in ActivityTypes
       THEN /\ activities' = Append(activities, AdminDeleteActivity(req[p]))
            /\ UNCHANGED <<itemStatus, points, swaps>>
            /\ Goto(p, "ad_delete")
       ELSE /\ UNCHANGED db
            /\ Respond(p, Json(500, "Failed to remove item"))

\* Item.findByIdAndDelete(id) of the admin route.  No request reaches it:
\* the activity before it is never saved, so it is not a step of ItemStep.
AdminDeleteItem(p) ==
    /\ pc[p] = "ad_delete"
    /\ UNCHANGED ledger
    /\ itemStatus' = [itemStatus EXCEPT ![req[p].item] = ItemDeleted]
    /\ UNCHANGED <<points, swaps, activities>>
    /\ Respond(p, Json(200, ""))

ItemStep(p) ==
    \/ UpdateFind(p)
    \/ UpdateItem(p)
    \/ DeleteFind(p)
    \/ DeleteItem(p)
    \/ ApproveFindUser(p)
    \/ ApproveUpdate(p)
    \/ RejectFindUser(p)
    \/ RejectUpdate(p)
    \/ AdminApproveFind(p)
    \/ AdminApproveSave(p)
    \/ AdminApproveSaveActivity(p)
    \/ AdminRejectFind(p)
    \/ AdminRejectSave(p)
    \/ AdminDeleteFind(p)
    \/ AdminDeleteSaveActivity(p)

\* The swap router, the item routes and the moderation routes, requests one
\* after the other.
NextItems == \E p \in Procs : StartItems(p) \/ Step(p) \/ ItemStep(p)

SpecItems == Init /\ [][NextItems]_vars

\* ------------------------------------------------------------- vocabulary
AllIdle == \A p \in Procs : pc[p] = "idle"

\* The request that finished last was served alone and nothing has arrived
\* since: snap is the database before it, Database the database after it.
ServedAlone(op) == AllIdle /\ last.req.op = op

RECURSIVE SumOver(_, _)
SumOver(f, S) == IF S = {} THEN 0 ELSE LET x == CHOOSE y \in S : TRUE IN f[x] + SumOver(f, S \ {x})

TotalPoints(pts) == SumOver(pts, Users)

PendingIn(ss, u, i) == {k \in 1..Len(ss) : ss[k].requester_id = u /\ ss[k].item_id = i /\ ss[k].status = "pending"}

\* Handler positions after the last precondition check, where only writes remain.
AcceptWrites == {"a_save", "a_markSwapped", "a_awardRequester", "a_awardOwner", "a_requesterActivity", "a_ownerActivity"}

\* The item a handler standing at its item-status write is about to mark swapped.
SettledItem(p) == IF req[p].op = "create" THEN req[p].item ELSE swaps[req[p].swap].item_id

\* ------------------------------------------------------------------ claims

\* C1: for every item, over every interleaving of redemption creates and
\* accepts targeting it, exactly one call settles it: each call that reaches
\* its settlement write (status := swapped, followed by its balance writes)
\* finds the item still available; every other contender is turned away.
C1_ExactlyOneSettlement ==
    [][\A p \in Procs :
          (pc[p] \in {"c_markSwapped", "a_markSwapped"} /\ pc'[p] # pc[p])
              => itemStatus[SettledItem(p)] = "available"]_vars

\* C2: served alone, an accept of a pending swap whose item is already
\* swapped fails and pays no points to anyone.
C2_NoPayoutOnSwappedItem ==
    (/\ ServedAlone("accept")
     /\ last.req.swap \in 1..Len(snap.swaps)
     /\ snap.swaps[last.req.swap].status = "pending"
     /\ snap.itemStatus[snap.swaps[last.req.swap].item_id] = "swapped")
        => (last.resp.code >= 400 /\ points = snap.points)

\* C3: of two accept calls running against the same pending swap only one
\* gets past the pending check, so only one completes the swap, credits the
\* bonus and answers 200.
C3_OneAcceptPerSwap ==
    \A p, q \in Procs :
        (p # q /\ pc[p] \in AcceptWrites /\ pc[q] \in AcceptWrites)
            => req[p].swap # req[q].swap

\* C4: for each (requester, item) pair at most one pending swap exists.
C4_OnePendingPerPair ==
    \A u \in Users, i \in Items : Cardinality(PendingIn(swaps, u, i)) <= 1

\* C5: points are never double-spent: two redemptions by one requester for
\* two items are never both admitted on a balance that covers only one of
\* them, and no balance is driven below zero.
C5_NoDoubleSpend ==
    /\ \A u \in Users : points[u] >= 0
    /\ \A p, q \in Procs :
          (/\ p # q
           /\ pc[p] \in {"c_markSwapped", "c_debit"}
           /\ pc[q] \in {"c_markSwapped", "c_debit"}
           /\ req[p].user = req[q].user
           /\ req[p].item # req[q].item)
              => points[req[p].user] >= ItemPoints[req[p].item] + ItemPoints[req[q].item]

\* C6: served alone, a create that meets the redemption threshold and passes
\* every check leaves the requester exactly V poorer and the owner exactly V
\* richer, V the item's valuation (also when more than V was offered); no
\* other balance moves and the total is unchanged.
C6_RedemptionTransfersValuation ==
    (/\ ServedAlone("create")
     /\ last.req.points_offered >= ItemPoints[last.req.item]
     /\ last.resp.code \notin {400, 403, 404})
        => LET V == ItemPoints[last.req.item]
               r == last.req.user
               o == ItemOwner[last.req.item]
           IN /\ points[r] = snap.points[r] - V
              /\ points[o] = snap.points[o] + V
              /\ \A u \in Users \ {r, o} : points[u] = snap.points[u]
              /\ TotalPoints(points) = TotalPoints(snap.points)

C6_Witness ==
    /\ ServedAlone("create")
    /\ last.req.points_offered > ItemPoints[last.req.item]
    /\ last.resp.code \notin {400, 403, 404}
    /\ itemStatus[last.req.item] = "swapped"
    /\ snap.itemStatus[last.req.item] = "available"

\* C7: served alone, a successful accept of a swap on an item valued V adds
\* floor(V/10) to the requester and to the owner and moves no other balance:
\* nothing decreases, points_offered changes hands nowhere, and the total
\* grows by exactly 2*floor(V/10).
C7_AcceptAwardsBonus ==
    (ServedAlone("accept") /\ last.resp.code = 200)
        => LET s == snap.swaps[last.req.swap]
               b == ItemPoints[s.item_id] \div 10
               o == last.req.user
           IN /\ s.requester_id # o
              /\ points[s.requester_id] = snap.points[s.requester_id] + b
              /\ points[o] = snap.points[o] + b
              /\ \A u \in Users \ {s.requester_id, o} : points[u] = snap.points[u]
              /\ \A u \in Users : points[u] >= snap.points[u]
              /\ TotalPoints(points) = TotalPoints(snap.points) + 2 * b

C7_Witness ==
    /\ ServedAlone("accept")
    /\ last.resp.code = 200
    /\ snap.swaps[last.req.swap].points_offered > 0
    /\ ItemPoints[snap.swaps[last.req.swap].item_id] = 25
    /\ TotalPoints(points) = TotalPoints(snap.points) + 4

\* C8: the swap record of a create that met the redemption threshold is
\* completed, never pending.
C8_RedemptionSwapCompleted ==
    \A k \in 1..Len(swaps) :
        swaps[k].points_offered >= ItemPoints[swaps[k].item_id] => swaps[k].status = "completed"

\* C9: served alone, a create that meets the redemption threshold for an
\* available item of another user (no pending duplicate, a valid offer if
\* any) by a requester whose balance is below the valuation answers
\* "Insufficient points" with the valuation and the balance, and leaves the
\* database as it found it.
C9_InsufficientPoints ==
    (/\ ServedAlone("create")
     /\ last.req.points_offered >= ItemPoints[last.req.item]
     /\ snap.points[last.req.user] < ItemPoints[last.req.item]
     /\ snap.itemStatus[last.req.item] = "available"
     /\ ItemOwner[last.req.item] # last.req.user
     /\ PendingIn(snap.swaps, last.req.user, last.req.item) = {}
     /\ last.req.offered # NoItem =>
            (/\ last.req.offered \in Items
             /\ ItemOwner[last.req.offered] = last.req.user
             /\ snap.itemStatus[last.req.offered] = "available"))
        => /\ last.resp = [code |-> 400, error |-> "Insufficient points",
                           detail |-> <<ItemPoints[last.req.item], snap.points[last.req.user]>>]
           /\ Database = snap

C9_Witness ==
    /\ ServedAlone("create")
    /\ last.req.points_offered > ItemPoints[last.req.item]
    /\ snap.points[last.req.user] < ItemPoints[last.req.item]
    /\ last.resp.error = "Insufficient points"
    /\ last.resp.detail = <<15, 10>>

\* C10: served alone, an accept, decline or cancel of a swap that is
\* completed, declined or cancelled answers an error, whoever calls it, and
\* leaves the database as it found it.
C10_TerminalSwapUntouched ==
    (/\ AllIdle
     /\ last.req.op \in {"accept", "decline", "cancel"}
     /\ last.req.swap \in 1..Len(snap.swaps)
     /\ snap.swaps[last.req.swap].status \in {"completed", "declined", "cancelled"})
        => (last.resp.code >= 400 /\ Database = snap)

C10_Witness ==
    /\ ServedAlone("cancel")
    /\ last.req.swap \in 1..Len(snap.swaps)
    /\ snap.swaps[last.req.swap].status = "completed"
    /\ snap.swaps[last.req.swap].requester_id = last.req.user
    /\ last.resp.error = "Swap request is no longer pending"

\* C11: a swap's status never changes after it has left pending, under any
\* interleaving of accept, decline and cancel.
C11_TerminalStatusFrozen ==
    [][\A k \in 1..Len(swaps) :
          swaps[k].status # "pending" => swaps'[k].status = swaps[k].status]_vars

\* C12 as claimed: a create by the owner of the target item always answers
\* "Cannot swap your own item", in every state of the item, and changes nothing.
C12_SelfSwapAlwaysInvalidOperation ==
    (ServedAlone("create") /\ ItemOwner[last.req.item] = last.req.user)
        => /\ last.resp = [code |-> 400, error |-> "Cannot swap your own item", detail |-> << >>]
           /\ Database = snap

\* C12 as amended: a create by the owner of the target item always fails and
\* changes nothing; it answers "Cannot swap your own item" when the item is
\* available and 404 "Item not found or not available" when it is not,
\* availability being checked first.
C12_SelfSwapRejected ==
    (ServedAlone("create") /\ ItemOwner[last.req.item] = last.req.user)
        => /\ Database = snap
           /\ last.resp = IF snap.itemStatus[last.req.item] = "available"
                          THEN [code |-> 400, error |-> "Cannot swap your own item", detail |-> << >>]
                          ELSE [code |-> 404, error |-> "Item not found or not available", detail |-> << >>]

C12_Witness ==
    /\ ServedAlone("create")
    /\ ItemOwner[last.req.item] = last.req.user
    /\ snap.itemStatus[last.req.item] = "swapped"
    /\ last.resp.code = 404

C15_NoPartialStateOn500 ==
    (AllIdle /\ last.resp.code = 500) => Database = snap

\* The status code of each kind of failure of the swap operations, served
\* alone; conflict is the code of a duplicate pending request and of an
\* operation on a swap that is no longer pending.
ErrorCodes(conflict) ==
    AllIdle =>
        LET r == last.req
            c == last.resp.code
            exists == r.swap \in 1..Len(snap.swaps)
            s == snap.swaps[r.swap]
            actor == IF r.op = "cancel" THEN s.requester_id ELSE ItemOwner[s.item_id]
            open == snap.itemStatus[r.item] = "available" /\ ItemOwner[r.item] # r.user
            duplicate == PendingIn(snap.swaps, r.user, r.item) # {}
            offerOk == r.offered = NoItem \/ (r.offered \in Items /\ ItemOwner[r.offered] = r.user /\ snap.itemStatus[r.offered] = "available")
        IN /\ (r.op = "create" /\ snap.itemStatus[r.item] # "available") => c = 404
           /\ (r.op \in {"accept", "decline", "cancel"} /\ ~exists) => c = 404
           /\ (r.op \in {"accept", "decline", "cancel"} /\ exists /\ r.user # actor) => c = 403
           /\ (r.op = "create" /\ snap.itemStatus[r.item] = "available" /\ ItemOwner[r.item] = r.user) => c = 400
           /\ (r.op = "create" /\ open /\ ~duplicate /\ offerOk
                 /\ r.points_offered >= ItemPoints[r.item] /\ snap.points[r.user] < ItemPoints[r.item]) => c = 400
           /\ (r.op = "create" /\ open /\ duplicate) => c = conflict
           /\ (r.op \in {"accept", "decline", "cancel"} /\ exists /\ r.user = actor /\ s.status # "pending") => c = conflict

\* C17 as claimed: not-found -> 404, validation and insufficient points ->
\* 400, forbidden actor -> 403, duplicate and already-settled -> 409.
C17_ErrorCodes409 == ErrorCodes(409)

\* C17 as amended: not-found -> 404, validation and insufficient points ->
\* 400, forbidden actor -> 403, duplicate and already-settled -> 400.
C17_ErrorCodes400 == ErrorCodes(400)

C17_Witness ==
    /\ AllIdle
    /\ \/ /\ last.req.op = "create"
          /\ PendingIn(snap.swaps, last.req.user, last.req.item) # {}
       \/ /\ last.req.op = "accept"
          /\ last.req.swap \in 1..Len(snap.swaps)
          /\ snap.swaps[last.req.swap].status = "declined"
          /\ ItemOwner[snap.swaps[last.req.swap].item_id] = last.req.user
    /\ last.resp.code = 400

\* C18: create checks (1) target available, (2) requester not the owner,
\* (3) no pending swap of the requester on the item, (4) offered item owned
\* by the requester and available, (5) balance when the threshold is met, in
\* this order: the answer is the error of the first check that fails, and a
\* rejected create writes nothing.
C18_FirstFailingCheckWins ==
    ServedAlone("create") =>
        LET r == last.req
            expected ==
                IF snap.itemStatus[r.item] # "available" THEN "Item not found or not available"
                ELSE IF ItemOwner[r.item] = r.user THEN "Cannot swap your own item"
                ELSE IF PendingIn(snap.swaps, r.user, r.item) # {} THEN "You already have a pending swap request for this item"
                ELSE IF r.offered # NoItem /\ r.offered \notin Items THEN "Offered item not found"
                ELSE IF r.offered # NoItem /\ ItemOwner[r.offered] # r.user THEN "You can only offer your own items"
                ELSE IF r.offered # NoItem /\ snap.itemStatus[r.offered] # "available" THEN "Offered item must be available"
                ELSE IF r.points_offered >= ItemPoints[r.item] /\ snap.points[r.user] < ItemPoints[r.item] THEN "Insufficient points"
                ELSE "none"
        IN IF expected = "none"
           THEN last.resp.code \notin {400, 403, 404}
           ELSE last.resp.error = expected /\ Database = snap

C18_Witness ==
    /\ ServedAlone("create")
    /\ PendingIn(snap.swaps, last.req.user, last.req.item) # {}
    /\ last.req.offered = "i1"
    /\ ItemOwner[last.req.offered] # last.req.user
    /\ last.req.points_offered >= ItemPoints[last.req.item]
    /\ snap.points[last.req.user] < ItemPoints[last.req.item]
    /\ last.resp.error = "You already have a pending swap request for this item"

\* C19: served alone, a successful create below the redemption threshold
\* adds exactly one pending swap and exactly one swap_request activity with
\* zero delta for the requester, and changes no balance and no item status.
C19_PendingCreateEffects ==
    (/\ ServedAlone("create")
     /\ last.resp.code = 201
     /\ last.req.points_offered < ItemPoints[last.req.item])
        => LET r == last.req IN
           /\ swaps = Append(snap.swaps,
                  [requester_id |-> r.user, item_id |-> r.item, offered_item_id |-> r.offered,
                   status |-> "pending", points_offered |-> r.points_offered])
           /\ activities = Append(snap.activities,
                  [user_id |-> r.user, type |-> "swap_request", points |-> 0, related_item_id |-> r.item])
           /\ points = snap.points
           /\ itemStatus = snap.itemStatus

C19_Witness ==
    /\ ServedAlone("create")
    /\ last.resp.code = 201
    /\ last.req.points_offered = 15
    /\ last.req.offered = "i3"
    /\ Len(swaps) = Len(snap.swaps) + 1
    /\ itemStatus[last.req.item] = "available"
    /\ itemStatus["i3"] = "available"

\* C20: served alone, a successful decline sets the swap to declined and
\* adds exactly one swap_declined activity with zero delta attributed to the
\* requester; no item status and no balance changes.
C20_DeclineEffects ==
    (ServedAlone("decline") /\ last.resp.code = 200)
        => LET s == snap.swaps[last.req.swap] IN
           /\ swaps = [snap.swaps EXCEPT ![last.req.swap].status = "declined"]
           /\ activities = Append(snap.activities,
                  [user_id |-> s.requester_id, type |-> "swap_declined", points |-> 0, related_item_id |-> s.item_id])
           /\ points = snap.points
           /\ itemStatus = snap.itemStatus

C20_Witness ==
    /\ ServedAlone("decline")
    /\ last.resp.code = 200
    /\ swaps[last.req.swap].status = "declined"
    /\ snap.swaps[last.req.swap].status = "pending"

\* C14: in every reachable state the level of each user is the level of
\* their points (>= 1000 Swap Master, >= 500 Eco Champion, >= 100 Fashion
\* Enthusiast, else Newcomer).
C14_LevelMatchesPoints ==
    \A u \in Users :
        level[u] = IF points[u] >= 1000 THEN "Swap Master"
                   ELSE IF points[u] >= 500 THEN "Eco Champion"
                   ELSE IF points[u] >= 100 THEN "Fashion Enthusiast"
                   ELSE "Newcomer"

C21_CancelEffects ==
    (ServedAlone("cancel") /\ last.resp.code = 200)
        => /\ swaps = [snap.swaps EXCEPT ![last.req.swap].status = "cancelled"]
           /\ activities = snap.activities
           /\ points = snap.points
           /\ itemStatus = snap.itemStatus

C21_Witness ==
    /\ ServedAlone("cancel")
    /\ last.resp.code = 200
    /\ snap.swaps[last.req.swap].status = "pending"
    /\ swaps[last.req.swap].status = "cancelled"
    /\ Len(activities) > 0

\* C22: served alone, every redemption that is not rejected appends exactly
\* one point_redemption activity with delta -item.points for the requester,
\* and the call answers 201.
C22_RedemptionActivity ==
    (/\ ServedAlone("create")
     /\ last.req.points_offered >= ItemPoints[last.req.item]
     /\ last.resp.code \notin {400, 403, 404})
        => /\ last.resp.code = 201
           /\ activities = Append(snap.activities,
                  [user_id |-> last.req.user, type |-> "point_redemption",
                   points |-> 0 - ItemPoints[last.req.item], related_item_id |-> last.req.item])

\* C23: served alone, every successful accept appends exactly two
\* swap_completed activities, the first for the requester and the second for
\* the owner, each with delta floor(item.points / 10).
C23_AcceptActivities ==
    (ServedAlone("accept") /\ last.resp.code = 200)
        => LET s == snap.swaps[last.req.swap]
               award == ItemPoints[s.item_id] \div 10
           IN activities = snap.activities \o
                  << [user_id |-> s.requester_id, type |-> "swap_completed", points |-> award, related_item_id |-> s.item_id],
                     [user_id |-> ItemOwner[s.item_id], type |-> "swap_completed", points |-> award, related_item_id |-> s.item_id] >>

C23_Witness ==
    /\ ServedAlone("accept")
    /\ last.resp.code = 200
    /\ Len(activities) = Len(snap.activities) + 2
    /\ activities[Len(activities)].points = 2
    /\ activities[Len(activities)].user_id = "u1"
    /\ activities[Len(activities) - 1].user_id = "u2"

\* C25: in a settlement served alone (a redemption inside create, an
\* acceptance inside accept), once the handler has written a swap, a balance
\* or an activity, the item is already swapped: the item-status write comes
\* first.
C25_ItemFlipFirst ==
    \A p \in Procs :
        (/\ \/ req[p].op = "accept"
            \/ req[p].op = "create" /\ req[p].points_offered >= ItemPoints[req[p].item]
         /\ \/ swaps # snap.swaps
            \/ points # snap.points
            \/ activities # snap.activities)
            => itemStatus[SettledItem(p)] = "swapped"

\* C27: served alone, a create naming an offered item that does not exist,
\* is not owned by the requester or is not available is rejected and changes
\* nothing; when the checks before it pass, the error is the one of the
\* offered item: 404 not found, 403 not the requester's, 400 not available.
C27_InvalidOfferRejected ==
    (/\ ServedAlone("create")
     /\ last.req.offered # NoItem
     /\ \/ last.req.offered \notin Items
        \/ ItemOwner[last.req.offered] # last.req.user
        \/ snap.itemStatus[last.req.offered] # "available")
        => LET r == last.req IN
           /\ last.resp.code \in {400, 403, 404}
           /\ Database = snap
           /\ (/\ snap.itemStatus[r.item] = "available"
               /\ ItemOwner[r.item] # r.user
               /\ PendingIn(snap.swaps, r.user, r.item) = {})
                  => last.resp.error =
                        IF r.offered \notin Items THEN "Offered item not found"
                        ELSE IF ItemOwner[r.offered] # r.user THEN "You can only offer your own items"
                        ELSE "Offered item must be available"

C27_Witness ==
    /\ ServedAlone("create")
    /\ last.req.offered = "i3"
    /\ last.req.user = "u2"
    /\ snap.itemStatus["i3"] = "swapped"
    /\ last.resp.error = "Offered item must be available"

\* C26: the level updateLevel has just written for a balance is Swap Master
\* from 1000, Eco Champion from 500 to 999, Fashion Enthusiast from 100 to
\* 499 and Newcomer below 100, negative balances included.
C26_UpdateLevelThresholds ==
    \A p \in Procs :
        pc[p] = "adm_activity" =>
            LET n == points[req[p].user]
                l == level[req[p].user]
            IN /\ n >= 1000 => l = "Swap Master"
               /\ (500 <= n /\ n < 1000) => l = "Eco Champion"
               /\ (100 <= n /\ n < 500) => l = "Fashion Enthusiast"
               /\ n < 100 => l = "Newcomer"

C26_Witness ==
    /\ \E p \in Procs : pc[p] = "adm_activity" /\ req[p].user = "u2"
    /\ points["u1"] = 1000
    /\ level["u1"] = "Swap Master"
    /\ points["u2"] < 0
    /\ level["u2"] = "Newcomer"

\* C28: served alone, a successful accept of a swap with an offered item
\* leaves the offered item's status and every other swap as they were, so
\* the item stays attached to the other swaps that offer it.
C28_OfferedItemUntouched ==
    (/\ ServedAlone("accept")
     /\ last.resp.code = 200
     /\ snap.swaps[last.req.swap].offered_item_id # NoItem)
        => LET s == snap.swaps[last.req.swap] IN
           /\ itemStatus[s.offered_item_id] = snap.itemStatus[s.offered_item_id]
           /\ swaps[last.req.swap].offered_item_id = s.offered_item_id
           /\ \A k \in 1..Len(snap.swaps) : k # last.req.swap => swaps[k] = snap.swaps[k]

\* The same offered item is part of two completed swaps and still available.
C28_Witness ==
    /\ ServedAlone("accept")
    /\ last.resp.code = 200
    /\ itemStatus["i3"] = "available"
    /\ \E j, k \in 1..Len(swaps) :
         /\ j # k
         /\ swaps[j].status = "completed" /\ swaps[j].offered_item_id = "i3"
         /\ swaps[k].status = "completed" /\ swaps[k].offered_item_id = "i3"

\* C24: an item becomes available only by an approval of a pending item,
\* and swapped is terminal: once an item is swapped, no update, approval or
\* rejection changes its status.
C24_ItemLifecycle ==
    [][\A i \in Items :
          /\ itemStatus[i] = "swapped" => itemStatus'[i] \in {"swapped", ItemDeleted}
          /\ (itemStatus[i] # "available" /\ itemStatus'[i] = "available")
                => /\ itemStatus[i] = "pending"
                   /\ \E p \in Procs : pc[p] \in {"ap_update", "aa_save"} /\ pc'[p] # pc[p]]_vars

\* C29: in every reachable state the item of each pending swap exists.
C29_PendingSwapItemExists ==
    \A k \in 1..Len(swaps) :
        swaps[k].status = "pending" => itemStatus[swaps[k].item_id] # ItemDeleted

\* C30: whenever no request is in flight, the likes counter of every item
\* equals the number of Like records of the item (both start at zero, so the
\* counter has changed by the net number of records created and deleted),
\* under every interleaving of like and unlike requests.
C30_LikesCounterMatchesRecords ==
    (\A p \in Procs : pc[p] = "idle")
        => \A i \in Items : likeCount[i] = Cardinality({l \in likes : l[2] = i})

====
